---- MODULE Spec2Model ----
(***************************************************************************)
(* A model of pykafka's client-side topology layer:                        *)
(*   kafka/pykafka/cluster.py  (Cluster: metadata refresh, reconciliation, *)
(*                              offset-manager discovery)                  *)
(*   kafka/pykafka/broker.py   (Broker: connect, produce, offset           *)
(*                              commit/fetch retry loops)                  *)
(***************************************************************************)
EXTENDS Integers, Sequences, FiniteSets, TLC

\* ------------------------------------------------------------------ bounds

\* Number of update() passes started in one behaviour.
MaxPasses == 3

\* ------------------------------------------------------------- the universe

Threads == {"T1", "T2"}
\* The thread that constructs the Cluster (Cluster.__init__ calls update()).
MainThread == "T1"

\* Broker ids a MetadataResponse may report.
BrokerIds == {0, 1}
TopicNames == {"t", "u"}
\* Addresses a BrokerMetadata may carry: they differ in host, in port, or both.
BrokerAddrs ==
    { [host |-> "h1", port |-> 9092],
      [host |-> "h2", port |-> 9092],
      [host |-> "h1", port |-> 9093] }

\* Cluster._seed_hosts, a string, as its sequence of lexical pieces.
SeedHosts == <<"h1", ":", "9092", ",", "h2", ":", "9092">>

\* The id of a bootstrap Broker (cluster.py line 43).
BootstrapId == -1

\* protocol.BrokerMetadata values keyed by id, as MetadataResponse.brokers.
BrokerMetadataMaps ==
    UNION { [S -> BrokerAddrs] : S \in SUBSET BrokerIds }

\* MetadataResponse: brokers is {id: BrokerMetadata}, topics is {name: TopicMetadata};
\* a TopicMetadata is opaque here, only its key matters to the Cluster.
MetadataResponses ==
    [brokers : BrokerMetadataMaps, topics : SUBSET TopicNames]

\* The responses of a cluster whose brokers keep their addresses: id 0 lives at
\* h1:9092 and id 1 at h2:9092; brokers and the topic "t" come and go.
StableResponses ==
    { r \in MetadataResponses :
        /\ r.topics \subseteq {"t"}
        /\ \A id \in DOMAIN r.brokers :
            r.brokers[id] = [host |-> IF id = 0 THEN "h1" ELSE "h2", port |-> 9092] }

NoMetadata == [brokers |-> << >>, topics |-> {}]

\* ------------------------------------------------------------------ state

VARIABLES
    cluster,      \* "constructing" | "ready" | "failed": the Cluster object
    brokers,      \* Cluster._brokers: id -> Broker
    topics,       \* Cluster._topics: name -> Topic
    conns,        \* number of connections opened so far (none is ever closed)
    npass,        \* number of update() calls started so far
    lastDone,     \* the pass number of the update() that ended last
    pc,           \* per thread: its position inside update()
    pass,         \* per thread: the number of the pass it runs
    before,       \* per thread: the broker and topic maps when the pass began
    connects,     \* per thread: the broker ids the pass has connected to
    calls,        \* per thread: the Topic calls of the pass, by topic name
    cand,         \* per thread: _get_metadata's local `brokers` (candidates)
    tried,        \* per thread: the candidates asked so far, with the outcome
    meta,         \* per thread: update()'s local `metadata`
    removed,      \* per thread: the local `removed` of _update_brokers/_topics
    remaining,    \* per thread: the items the add/update loop has yet to visit
    result,       \* per thread: how the pass ended
    overlapped,   \* per thread: another pass ran while this one did
    \* One call of a Broker operation or of discover_offset_manager:
    op,           \* the call: its name and arguments
    opc,          \* "call" | "loop" | "get" | "returned" | "raised"
    failing,      \* the request handler fails every request
    broker,       \* discover_offset_manager's local `broker` (its id)
    ix,           \* the loop variable i of `for i in xrange(retries)`
    retries,      \* discover_offset_manager's local `retries`
    backoff,      \* discover_offset_manager's local `backoff`
    wire,         \* what the server answered to the last request, if anything
    log,          \* the requests, sleeps and future.get() calls, in order
    ret           \* what the call returned or raised

clusterVars == <<cluster, brokers, topics, conns, npass, lastDone, pc, pass, before,
                 connects, calls,
                 cand, tried, meta, removed, remaining, result, overlapped>>

opVars == <<op, opc, failing, broker, ix, retries, backoff, wire, log, ret>>

vars == <<clusterVars, opVars>>

\* ---------------------------------------------------------------- helpers

\* A pop that leaves the key in place.
MutPopKeepsKey(d, k) == d

\* dict without one key (dict.pop).
Pop(d, k) == [x \in DOMAIN d \ {k} |-> d[x]]

\* dict with d[k] = v assigned.
Put(d, k, v) == [x \in DOMAIN d \cup {k} |-> IF x = k THEN v ELSE d[x]]

\* All orders in which a dict's values may be listed.
Orderings(S) ==
    { s \in [1..Cardinality(S) -> S] :
        \A i, j \in 1..Cardinality(S) : i # j => s[i] # s[j] }

\* str.split(sep) on a sequence of lexical pieces.
RECURSIVE Split(_, _)
Split(s, sep) ==
    IF \A i \in 1..Len(s) : s[i] # sep
    THEN <<s>>
    ELSE LET k == CHOOSE i \in 1..Len(s) :
                     s[i] = sep /\ \A j \in 1..(i - 1) : s[j] # sep
         IN  <<SubSeq(s, 1, k - 1)>> \o Split(SubSeq(s, k + 1, Len(s)), sep)

\* Broker.__init__, lines 29-35: the object as connect() finds it.
\* inst tells two Brokers built for the same id apart (object identity).
Unconnected(id_, host, port, inst) ==
    [id |-> id_, host |-> host, port |-> port, connected |-> FALSE,
     handler |-> "none", inst |-> inst]

\* Broker.connect(), lines 75-79, when conn.connect(timeout) does not raise:
\* the RequestHandler is built and started, then _connected is set.
Connect(b) == [b EXCEPT !.handler = "started", !.connected = TRUE]

\* Broker.__init__ after a successful connect(): the live Broker object. (When
\* connect() raises, __init__ raises and there is no object.)
Broker(id_, host, port, inst) == Connect(Unconnected(id_, host, port, inst))

\* Broker.from_metadata.
FromMetadata(id_, m, inst) == Broker(id_, m.host, m.port, inst)

\* The dict that __init__ binds to self._brokers (line 19). The name is never
\* bound again, the dict is only changed in place: a reference to it sees the
\* broker map as it is at any later time.
SelfBrokers == [ref |-> "self._brokers"]

\* Topic(self._brokers, meta): the Topic object; it holds the broker map b it
\* was given.
Topic(b, name, inst) == [name |-> name, inst |-> inst, brokers |-> b]

\* A candidate list that is the seed list whatever the broker map holds.
MutCandidatesSeedsAlways ==
    LET parts == Split(SeedHosts, ",")
    IN  { [i \in DOMAIN parts |-> [kind |-> "str", str |-> parts[i]]] }

\* The candidates of _get_metadata: the known brokers if any, else the seeds.
Candidates ==
    IF DOMAIN brokers # {}
    THEN { [i \in DOMAIN o |-> [kind |-> "Broker", broker |-> o[i]]] :
             o \in Orderings({brokers[id] : id \in DOMAIN brokers}) }
    ELSE LET parts == Split(SeedHosts, ",")
         IN  { [i \in DOMAIN parts |-> [kind |-> "str", str |-> parts[i]]] }

\* A reconciliation that drops nothing.
MutRemovedKeysNone(old, fresh) == {}

\* `removed = set(old.keys()) - set(fresh.keys())`.
RemovedKeys(old, fresh) == old \ fresh

\* `meta.host == broker.host and meta.port == broker.port`.
SameAddress(m, b) == m.host = b.host /\ m.port = b.port

\* No call on a Topic yet.
NoCalls == [name \in TopicNames |-> << >>]

\* No pass in progress: nothing to compare with.
NoSnapshot == [brokers |-> << >>, topics |-> << >>]

InPass(t) == pc[t] \notin {"idle", "done"}

\* The pass of thread t ends with outcome r.
Finish(t, r) ==
    /\ pc' = [pc EXCEPT ![t] = "done"]
    /\ result' = [result EXCEPT ![t] = r]
    /\ lastDone' = pass[t]

\* What one candidate of _get_metadata may do: refuse the connection (a seed
\* address only), fail the metadata request, or answer with a MetadataResponse.
Outcomes(responses) ==
    [status : {"ok"}, response : responses]
      \cup [status : {"connect_failed", "request_failed"}, response : {NoMetadata}]

\* --------------------------------------------------------- Cluster.update()

\* Cluster.update() is called (by __init__ for the first pass); _get_metadata
\* lists its candidates. `history` tells whether the history variables
\* (before, connects) are recorded; they observe the pass and steer nothing.
CallUpdate(t, history) ==
    /\ UNCHANGED opVars
    /\ UNCHANGED calls
    /\ UNCHANGED connects
    /\ pc[t] = "idle"
    /\ \/ cluster = "constructing" /\ t = MainThread
       \/ cluster = "ready"
    /\ npass < MaxPasses
    /\ npass' = npass + 1
    /\ pass' = [pass EXCEPT ![t] = npass + 1]
    /\ before' = [before EXCEPT ![t] =
                    IF history THEN [brokers |-> brokers, topics |-> topics]
                    ELSE NoSnapshot]
    /\ \E c \in Candidates : cand' = [cand EXCEPT ![t] = c]
    /\ pc' = [pc EXCEPT ![t] = "get_metadata"]
    /\ overlapped' =
         IF \E u \in Threads \ {t} : InPass(u)
         THEN [u \in Threads |-> (u = t) \/ InPass(u) \/ overlapped[u]]
         ELSE [overlapped EXCEPT ![t] = FALSE]
    /\ UNCHANGED <<cluster, brokers, topics, conns, lastDone, tried, meta,
                   removed, remaining, result>>

\* A _get_metadata that files the bootstrap Broker it has connected under -1.
MutAskedKeepsBootstrap(b, c, p, connected) ==
    IF c.kind = "str" /\ connected
    THEN LET parts == Split(c.str, ":")
         IN  Put(b, BootstrapId, Broker(BootstrapId, parts[1], parts[2], p))
    ELSE b

\* _get_metadata, lines 41-44, on the broker map b for the candidate c: the
\* bootstrap Broker is bound to the loop variable only and request_metadata()
\* reads from the wire; the map is what it was.
Asked(b, c, p, connected) == b

\* One iteration of `for broker in brokers` in _get_metadata, and the raise
\* that follows the loop.
TryBroker(t, responses, history) ==
    /\ UNCHANGED opVars
    /\ UNCHANGED calls
    /\ UNCHANGED before
    /\ pc[t] = "get_metadata"
    /\ LET i == Len(tried[t]) + 1 IN
       IF i > Len(cand[t])
       THEN /\ Finish(t, "MetadataUnavailable")
            /\ UNCHANGED <<brokers, conns, connects, cand, tried, meta>>
       ELSE
         LET c == cand[t][i]
             parts == IF c.kind = "str" THEN Split(c.str, ":") ELSE << >>
         IN
         IF c.kind = "str" /\ Len(parts) # 2
         THEN \* `h, p = broker.split(':')` fails; the except clause re-raises
              /\ Finish(t, "ValueError")
              /\ tried' = [tried EXCEPT ![t] = Append(@, [addr |-> c.str, status |-> "bad_address"])]
              /\ UNCHANGED <<brokers, conns, connects, cand, meta>>
         ELSE
           \E o \in Outcomes(responses) :
             /\ c.kind = "Broker" => o.status # "connect_failed"
             /\ brokers' = Asked(brokers, c, pass[t], o.status # "connect_failed")
             /\ tried' = [tried EXCEPT ![t] =
                   IF o.status = "ok"
                   THEN << >>
                   ELSE Append(@, [addr |-> IF c.kind = "str" THEN parts[1]
                                            ELSE <<c.broker.host>>,
                                   status |-> o.status])]
             /\ cand' = [cand EXCEPT ![t] = IF o.status = "ok" THEN << >> ELSE @]
             /\ conns' = IF c.kind = "str" /\ o.status # "connect_failed"
                         THEN conns + 1 ELSE conns
             /\ connects' = IF history /\ c.kind = "str" /\ o.status # "connect_failed"
                            THEN [connects EXCEPT ![t] = @ \cup {BootstrapId}]
                            ELSE connects
             /\ IF o.status = "ok"
                THEN /\ meta' = [meta EXCEPT ![t] = o.response]
                     /\ pc' = [pc EXCEPT ![t] = "update_brokers"]
                     /\ UNCHANGED <<result, lastDone>>
                ELSE \* `except Exception: logger.exception(...); raise`
                     /\ Finish(t, IF o.status = "connect_failed"
                                  THEN "ConnectFailure" ELSE "RequestFailure")
                     /\ UNCHANGED meta
    /\ UNCHANGED <<cluster, topics, npass, pass, removed,
                   remaining, overlapped>>

\* _update_brokers, line 60: the ids to drop. (remaining: the items that
\* broker_metadata.iteritems() will yield at line 65.)
UpdateBrokers(t) ==
    /\ UNCHANGED opVars
    /\ UNCHANGED calls
    /\ UNCHANGED connects
    /\ UNCHANGED before
    /\ pc[t] = "update_brokers"
    /\ removed' = [removed EXCEPT ![t] =
                     RemovedKeys(DOMAIN brokers, DOMAIN meta[t].brokers)]
    /\ remaining' = [remaining EXCEPT ![t] = DOMAIN meta[t].brokers]
    /\ pc' = [pc EXCEPT ![t] = "brokers"]
    /\ UNCHANGED <<cluster, brokers, topics, conns, npass, lastDone, pass, cand,
                   tried, meta, result, overlapped>>

\* _update_brokers, lines 61-63: one iteration of `for id_ in removed`.
RemoveBroker(t) ==
    /\ UNCHANGED opVars
    /\ UNCHANGED calls
    /\ UNCHANGED connects
    /\ UNCHANGED before
    /\ pc[t] = "brokers"
    /\ \E id_ \in removed[t] :
         /\ removed' = [removed EXCEPT ![t] = @ \ {id_}]
         /\ IF id_ \in DOMAIN brokers
            THEN /\ brokers' = Pop(brokers, id_)
                 /\ UNCHANGED <<pc, result, lastDone>>
            ELSE \* self._brokers[id_] on a key that is gone
                 /\ Finish(t, "KeyError")
                 /\ UNCHANGED brokers
    /\ UNCHANGED <<cluster, topics, conns, npass, pass, cand, tried, meta,
                   remaining, overlapped>>

\* A reconciliation that moves a known broker to its new address instead of raising.
MutReconcileBrokerMoves(b, id_, m, p, connectOk) ==
    IF id_ \in DOMAIN b /\ SameAddress(m, b[id_])
    THEN [brokers |-> b, connected |-> FALSE, raised |-> "none"]
    ELSE IF connectOk
         THEN [brokers |-> Put(b, id_, FromMetadata(id_, m, p)),
               connected |-> TRUE, raised |-> "none"]
         ELSE [brokers |-> b, connected |-> FALSE, raised |-> "ConnectFailure"]

\* A reconciliation that rebuilds (and reconnects) every broker the metadata
\* reports at the address already stored.
MutReconcileBrokerReconnects(b, id_, m, p, connectOk) ==
    IF id_ \in DOMAIN b /\ ~SameAddress(m, b[id_])
    THEN [brokers |-> b, connected |-> FALSE, raised |-> "BrokerAddressChanged"]
    ELSE IF connectOk
         THEN [brokers |-> Put(b, id_, FromMetadata(id_, m, p)),
               connected |-> TRUE, raised |-> "none"]
         ELSE [brokers |-> b, connected |-> FALSE, raised |-> "ConnectFailure"]

\* A reconciliation that keeps the Broker whose connect() failed.
MutReconcileBrokerKeepsUnconnected(b, id_, m, p, connectOk) ==
    IF id_ \notin DOMAIN b
    THEN IF connectOk
         THEN [brokers |-> Put(b, id_, FromMetadata(id_, m, p)),
               connected |-> TRUE, raised |-> "none"]
         ELSE [brokers |-> Put(b, id_, Unconnected(id_, m.host, m.port, p)),
               connected |-> FALSE, raised |-> "ConnectFailure"]
    ELSE IF SameAddress(m, b[id_])
         THEN [brokers |-> b, connected |-> FALSE, raised |-> "none"]
         ELSE [brokers |-> b, connected |-> FALSE, raised |-> "BrokerAddressChanged"]

\* A reconciliation that drops the entry whose address changed before raising.
MutReconcileBrokerDropsMoved(b, id_, m, p, connectOk) ==
    IF id_ \notin DOMAIN b
    THEN IF connectOk
         THEN [brokers |-> Put(b, id_, FromMetadata(id_, m, p)),
               connected |-> TRUE, raised |-> "none"]
         ELSE [brokers |-> b, connected |-> FALSE, raised |-> "ConnectFailure"]
    ELSE IF SameAddress(m, b[id_])
         THEN [brokers |-> b, connected |-> FALSE, raised |-> "none"]
         ELSE [brokers |-> Pop(b, id_), connected |-> FALSE,
               raised |-> "BrokerAddressChanged"]

\* The body of `for id_, meta in broker_metadata.iteritems()` (lines 66-78) on
\* the broker map b, for the metadata m of id_, by pass p; connectOk tells
\* whether Broker.connect() succeeds. Gives the new map and the outcome.
ReconcileBroker(b, id_, m, p, connectOk) ==
    IF id_ \notin DOMAIN b
    THEN IF connectOk
         THEN [brokers |-> Put(b, id_, FromMetadata(id_, m, p)),
               connected |-> TRUE, raised |-> "none"]
         ELSE [brokers |-> b, connected |-> FALSE, raised |-> "ConnectFailure"]
    ELSE IF SameAddress(m, b[id_])
         THEN [brokers |-> b, connected |-> FALSE, raised |-> "none"]
         ELSE [brokers |-> b, connected |-> FALSE, raised |-> "BrokerAddressChanged"]

\* _update_brokers, lines 65-78: one iteration of the add/update loop.
AddBroker(t, history) ==
    /\ UNCHANGED opVars
    /\ UNCHANGED calls
    /\ UNCHANGED before
    /\ pc[t] = "brokers"
    /\ removed[t] = {}
    /\ \E id_ \in remaining[t], connectOk \in BOOLEAN :
         LET r == ReconcileBroker(brokers, id_, meta[t].brokers[id_], pass[t], connectOk)
         IN  /\ remaining' = [remaining EXCEPT ![t] = @ \ {id_}]
             /\ brokers' = r.brokers
             /\ conns' = IF r.connected THEN conns + 1 ELSE conns
             /\ connects' = IF history /\ r.connected
                            THEN [connects EXCEPT ![t] = @ \cup {id_}]
                            ELSE connects
             /\ IF r.raised = "none"
                THEN UNCHANGED <<pc, result, lastDone>>
                ELSE Finish(t, r.raised)
    /\ UNCHANGED <<cluster, topics, npass, pass, cand, tried, meta, removed,
                   overlapped>>

\* An update() that goes on to the topics once the old brokers are dropped.
MutBrokersUpdatedEarly(t) == pc[t] = "brokers" /\ removed[t] = {}

\* update(), lines 127-128: _update_brokers has returned (both of its loops
\* have run to their end) when _update_topics is called.
BrokersUpdated(t) == pc[t] = "brokers" /\ removed[t] = {} /\ remaining[t] = {}

\* _update_brokers has returned; _update_topics, line 88: the names to drop.
\* (remaining: the items that metadata.iteritems() will yield at line 93.)
UpdateTopics(t) ==
    /\ UNCHANGED opVars
    /\ UNCHANGED calls
    /\ UNCHANGED connects
    /\ UNCHANGED before
    /\ BrokersUpdated(t)
    /\ removed' = [removed EXCEPT ![t] = RemovedKeys(DOMAIN topics, meta[t].topics)]
    /\ remaining' = [remaining EXCEPT ![t] = meta[t].topics]
    /\ pc' = [pc EXCEPT ![t] = "topics"]
    /\ UNCHANGED <<cluster, brokers, topics, conns, npass, lastDone, pass, cand,
                   tried, meta, result, overlapped>>

\* _update_topics, lines 89-91: one iteration of `for name in removed`.
RemoveTopic(t) ==
    /\ UNCHANGED opVars
    /\ UNCHANGED calls
    /\ UNCHANGED connects
    /\ UNCHANGED before
    /\ pc[t] = "topics"
    /\ \E name \in removed[t] :
         /\ removed' = [removed EXCEPT ![t] = @ \ {name}]
         /\ IF name \in DOMAIN topics
            THEN /\ topics' = Pop(topics, name)
                 /\ UNCHANGED <<pc, result, lastDone>>
            ELSE /\ Finish(t, "KeyError")
                 /\ UNCHANGED topics
    /\ UNCHANGED <<cluster, brokers, conns, npass, pass, cand, tried, meta,
                   remaining, overlapped>>

\* A topic reconciliation that never adds a Topic.
MutReconcileTopicNoAdd(tp, name, p) == tp

\* A topic reconciliation that builds a new Topic for every name.
MutReconcileTopicRebuilds(tp, name, p) == Put(tp, name, Topic(SelfBrokers, name, p))

\* The body of `for name, meta in metadata.iteritems()` (lines 94-98) on the
\* topic map tp, by pass p: a new Topic, or Topic.update(meta) in place.
ReconcileTopic(tp, name, p) ==
    IF name \notin DOMAIN tp
    THEN Put(tp, name, Topic(SelfBrokers, name, p))
    ELSE tp

\* The call that the loop body makes on a Topic (lines 94-98): the constructor
\* or update(meta) on the Topic of the map; ids are the keys of the broker map
\* at the time of the call.
TopicCall(tp, name, ids) ==
    IF name \notin DOMAIN tp
    THEN [call |-> "Topic", brokers |-> SelfBrokers, ids |-> ids]
    ELSE [call |-> "update", on |-> tp[name].inst, ids |-> ids]

\* _update_topics, lines 93-98: one iteration of the add/update loop.
AddTopic(t, history) ==
    /\ UNCHANGED opVars
    /\ UNCHANGED connects
    /\ UNCHANGED before
    /\ pc[t] = "topics"
    /\ removed[t] = {}
    /\ \E name \in remaining[t] :
         /\ remaining' = [remaining EXCEPT ![t] = @ \ {name}]
         /\ topics' = ReconcileTopic(topics, name, pass[t])
         /\ calls' = IF history
                     THEN [calls EXCEPT ![t][name] =
                             Append(@, TopicCall(topics, name, DOMAIN brokers))]
                     ELSE calls
    /\ UNCHANGED <<cluster, brokers, conns, npass, lastDone, pc, pass, cand,
                   tried, meta, removed, result, overlapped>>

\* _update_topics returns and so does update().
TopicsUpdated(t) ==
    /\ UNCHANGED opVars
    /\ UNCHANGED calls
    /\ UNCHANGED connects
    /\ UNCHANGED before
    /\ pc[t] = "topics"
    /\ removed[t] = {}
    /\ remaining[t] = {}
    /\ Finish(t, "ok")
    /\ UNCHANGED <<cluster, brokers, topics, conns, npass, pass, cand, tried,
                   meta, removed, remaining, overlapped>>

\* The caller has the outcome of update(); for the first pass the caller is
\* Cluster.__init__, and an exception leaves no Cluster object behind.
Return(t) ==
    /\ UNCHANGED opVars
    /\ pc[t] = "done"
    /\ cluster' = IF cluster = "constructing"
                  THEN IF result[t] = "ok" THEN "ready" ELSE "failed"
                  ELSE cluster
    /\ pc' = [pc EXCEPT ![t] = "idle"]
    /\ pass' = [pass EXCEPT ![t] = 0]
    /\ before' = [before EXCEPT ![t] = NoSnapshot]
    /\ connects' = [connects EXCEPT ![t] = {}]
    /\ calls' = [calls EXCEPT ![t] = NoCalls]
    /\ cand' = [cand EXCEPT ![t] = << >>]
    /\ tried' = [tried EXCEPT ![t] = << >>]
    /\ meta' = [meta EXCEPT ![t] = NoMetadata]
    /\ removed' = [removed EXCEPT ![t] = {}]
    /\ remaining' = [remaining EXCEPT ![t] = {}]
    /\ result' = [result EXCEPT ![t] = "none"]
    /\ overlapped' = [overlapped EXCEPT ![t] = FALSE]
    /\ UNCHANGED <<brokers, topics, conns, npass, lastDone>>

UpdateStep(t, responses, history) ==
    \/ CallUpdate(t, history)
    \/ TryBroker(t, responses, history)
    \/ UpdateBrokers(t)
    \/ RemoveBroker(t)
    \/ AddBroker(t, history)
    \/ UpdateTopics(t)
    \/ RemoveTopic(t)
    \/ AddTopic(t, history)
    \/ TopicsUpdated(t)
    \/ Return(t)

\* Cluster.__init__, lines 16-20: the state in which it calls update().
InitCluster ==
    /\ cluster = "constructing"
    /\ brokers = << >>
    /\ topics = << >>
    /\ conns = 0
    /\ npass = 0
    /\ lastDone = 0
    /\ pc = [t \in Threads |-> "idle"]
    /\ pass = [t \in Threads |-> 0]
    /\ before = [t \in Threads |-> NoSnapshot]
    /\ connects = [t \in Threads |-> {}]
    /\ calls = [t \in Threads |-> NoCalls]
    /\ cand = [t \in Threads |-> << >>]
    /\ tried = [t \in Threads |-> << >>]
    /\ meta = [t \in Threads |-> NoMetadata]
    /\ removed = [t \in Threads |-> {}]
    /\ remaining = [t \in Threads |-> {}]
    /\ result = [t \in Threads |-> "none"]
    /\ overlapped = [t \in Threads |-> FALSE]

\* No Broker operation is in progress.
NoOp == [name |-> "none", retries |-> 0, required_acks |-> 0]
NoReply == [status |-> "none"]
Pending == [kind |-> "pending"]

InitNoOp ==
    /\ op = NoOp
    /\ opc = "call"
    /\ failing = FALSE
    /\ broker = BootstrapId
    /\ ix = 0
    /\ retries = 0
    /\ backoff = 0
    /\ wire = NoReply
    /\ log = << >>
    /\ ret = Pending

Init == InitCluster /\ InitNoOp

\* update() called by one thread at a time.
Next == UpdateStep(MainThread, MetadataResponses, TRUE)

Spec == Init /\ [][Next]_vars

\* update() called by several threads with no lock; the history variables
\* `before` and `connects`, which no step reads, are not recorded.
NextConcurrent == \E t \in Threads : UpdateStep(t, StableResponses, FALSE)

SpecConcurrent == Init /\ [][NextConcurrent]_vars

\* ------------------------------------------------ requests and responses

\* The attempt cap of discover_offset_manager.
MAX_RETRIES == 3

\* The largest `retries` argument of a commit or fetch call.
MaxRetries == 3

None == [kind |-> "None"]

\* An exception raised to the caller; `attempt` is the request whose failure it is.
Raise(exc, attempt) == [kind |-> "raise", exc |-> exc, attempt |-> attempt]

\* Events of the log.
RequestEv(to, hasResponse) == [ev |-> "request", to |-> to, has_response |-> hasResponse]
SleepEv(secs) == [ev |-> "sleep", secs |-> secs]
GetEv == [ev |-> "get"]

\* The subsequence of the events of a kind.
Events(kind) == SelectSeq(log, LAMBDA e : e.ev = kind)
\* The requests and sleeps, in order.
RequestsAndSleeps == SelectSeq(log, LAMBDA e : e.ev \in {"request", "sleep"})

\* The calls one behaviour may make.
Calls ==
    [name : {"commit", "fetch"}, retries : 0..MaxRetries, required_acks : {0}]
      \cup [name : {"produce"}, retries : {0}, required_acks : {-1, 0, 1}]
      \cup [name : {"discover"}, retries : {0}, required_acks : {0}]

\* The broker maps of a constructed Cluster whose brokers keep their addresses.
ReadyBrokerMaps ==
    { [id \in DOMAIN r.brokers |-> FromMetadata(id, r.brokers[id], 1)] :
        r \in StableResponses }

\* handler.request(req, has_response): the request goes out; a future is
\* awaited only when a response is expected.
HandlerRequest(to, hasResponse) ==
    /\ log' = Append(log, RequestEv(to, hasResponse))
    /\ wire' = NoReply

\* The server answers the last request, or fails it; it may do so whether or
\* not the client expects a response.
ServerReply ==
    /\ Events("request") # << >>
    /\ wire = NoReply
    /\ opc # "raised"
    /\ \E st \in {"ok", "error"}, c \in BrokerIds :
         /\ failing => st = "error"
         /\ op.name # "discover" => c = 0
         /\ wire' = [status |-> st, of |-> Len(Events("request")), coordinator_id |-> c]
    /\ UNCHANGED <<op, opc, failing, broker, ix, retries, backoff, log, ret>>
    /\ UNCHANGED clusterVars

\* future.get() can return or raise: the answer to a request that expects a
\* response is there.
Answered ==
    /\ wire # NoReply
    /\ Events("request")[wire.of].has_response

\* ------------------------------------------------------ Broker operations

opFrame == <<op, failing, broker>>

\* The first branch of produce_messages taken for every value of required_acks.
MutExpectsResponseNever(acks) == FALSE

\* `produce_request.required_acks == 0` is the fire-and-forget case (line 104).
ExpectsResponse(acks) == acks # 0

\* Broker.produce_messages, lines 104-107: the request is submitted.
ProduceMessages ==
    /\ opc = "call"
    /\ op.name = "produce"
    /\ HandlerRequest(broker, ExpectsResponse(op.required_acks))
    /\ IF ExpectsResponse(op.required_acks)
       THEN opc' = "get" /\ UNCHANGED ret
       ELSE opc' = "returned" /\ ret' = None
    /\ UNCHANGED <<opFrame, ix, retries, backoff>>
    /\ UNCHANGED clusterVars

\* Broker.produce_messages, lines 107-109: .get() has its answer.
ProduceGet ==
    /\ opc = "get"
    /\ op.name = "produce"
    /\ Answered
    /\ log' = Append(log, GetEv)
    /\ IF wire.status = "ok"
       THEN opc' = "returned" /\ ret' = None
       ELSE opc' = "raised" /\ ret' = Raise("ProtocolError", wire.of)
    /\ UNCHANGED <<opFrame, ix, retries, backoff, wire>>
    /\ UNCHANGED clusterVars

\* The sleep announced by the log message of line 139.
MutBackoffSleepAsLogged(k) == (k + 1) ^ 2

\* `time.sleep(i ** 2)` (lines 140 and 161).
BackoffSleep(k) == k ^ 2

\* The events of one iteration of the retry loop up to the request
\* (lines 138-143 and 159-164): a sleep unless it is the first, the request.
AttemptEvents(k, to) ==
    (IF k > 0 THEN <<SleepEv(BackoffSleep(k))>> ELSE << >>) \o <<RequestEv(to, TRUE)>>

\* commit_/fetch_consumer_group_offsets, lines 131-135 and 154-156: the
\* request is built (self.topic and self.group are taken to resolve).
OffsetsCall ==
    /\ opc = "call"
    /\ op.name \in {"commit", "fetch"}
    /\ ix' = 0
    /\ opc' = "loop"
    /\ UNCHANGED <<opFrame, retries, backoff, wire, log, ret>>
    /\ UNCHANGED clusterVars

\* One iteration of `for i in xrange(retries)` up to the request.
OffsetsAttempt ==
    /\ opc = "loop"
    /\ op.name \in {"commit", "fetch"}
    /\ ix < op.retries
    /\ log' = log \o AttemptEvents(ix, broker)
    /\ wire' = NoReply
    /\ opc' = "get"
    /\ UNCHANGED <<opFrame, ix, retries, backoff, ret>>
    /\ UNCHANGED clusterVars

\* xrange(retries) is exhausted: the function falls off its end.
OffsetsExhausted ==
    /\ opc = "loop"
    /\ op.name \in {"commit", "fetch"}
    /\ ix >= op.retries
    /\ opc' = "returned"
    /\ ret' = None
    /\ UNCHANGED <<opFrame, ix, retries, backoff, wire, log>>
    /\ UNCHANGED clusterVars

\* A commit whose loop has no `break`.
MutCommitOutcomeNoBreak(status, attempt, n) == [opc |-> "loop", ret |-> Pending]

\* commit_consumer_group_offsets, lines 142-147: the try statement's outcome
\* for the answer to request number `attempt` of n.
CommitOutcome(status, attempt, n) ==
    IF status = "ok"
    THEN [opc |-> "returned", ret |-> None]     \* else: break
    ELSE [opc |-> "loop", ret |-> Pending]      \* except Exception: log

\* A fetch that gives up after the first failure.
MutFetchOutcomeGivesUp(status, attempt, n) ==
    IF status = "ok" THEN [opc |-> "returned", ret |-> [kind |-> "response", of |-> attempt]]
    ELSE [opc |-> "returned", ret |-> None]

\* fetch_consumer_group_offsets, lines 163-168.
FetchOutcome(status, attempt, n) ==
    IF status = "ok"
    THEN [opc |-> "returned", ret |-> [kind |-> "response", of |-> attempt]]  \* return res
    ELSE [opc |-> "loop", ret |-> Pending]

\* .get(OffsetCommitResponse) / .get(OffsetFetchResponse) has its answer.
OffsetsGet ==
    /\ opc = "get"
    /\ op.name \in {"commit", "fetch"}
    /\ Answered
    /\ log' = Append(log, GetEv)
    /\ LET o == IF op.name = "commit"
                THEN CommitOutcome(wire.status, wire.of, op.retries)
                ELSE FetchOutcome(wire.status, wire.of, op.retries)
       IN  /\ opc' = o.opc
           /\ ret' = o.ret
           /\ ix' = IF o.opc = "loop" THEN ix + 1 ELSE ix
    /\ UNCHANGED <<opFrame, retries, backoff, wire>>
    /\ UNCHANGED clusterVars

\* ------------------------------------------ Cluster.discover_offset_manager

\* A retry test that gives up at once.
MutShouldRetryNever(n) == FALSE

\* A retry test that is off by one.
MutShouldRetryOnceMore(n) == n <= MAX_RETRIES

\* `if retries < MAX_RETRIES` (line 113).
ShouldRetry(n) == n < MAX_RETRIES

\* `backoff = pow(backoff, 2)` (line 115).
NextBackoff(b) == b ^ 2

\* A lookup that resolves an unknown coordinator id to some known broker.
MutCoordinatorAnyKnown(b, cid) ==
    IF cid \in DOMAIN b THEN [kind |-> "Broker", broker |-> b[cid]]
    ELSE IF DOMAIN b # {}
         THEN [kind |-> "Broker", broker |-> b[CHOOSE id \in DOMAIN b : TRUE]]
         ELSE None

\* `self.brokers.get(res.coordinator_id, None)` (line 119).
Coordinator(b, cid) ==
    IF cid \in DOMAIN b THEN [kind |-> "Broker", broker |-> b[cid]] ELSE None

\* discover_offset_manager, lines 102-104: a broker is picked, the locals set.
DiscoverCall ==
    /\ opc = "call"
    /\ op.name = "discover"
    /\ IF DOMAIN brokers = {}
       THEN \* self.brokers.keys()[0] on an empty list
            /\ opc' = "raised"
            /\ ret' = Raise("IndexError", 0)
            /\ UNCHANGED <<broker, backoff, retries>>
       ELSE /\ \E id \in DOMAIN brokers : broker' = id
            /\ backoff' = 2
            /\ retries' = 0
            /\ opc' = "loop"
            /\ UNCHANGED ret
    /\ UNCHANGED <<op, failing, ix, wire, log>>
    /\ UNCHANGED clusterVars

\* discover_offset_manager, lines 107-109: one more lookup is sent.
DiscoverRequest ==
    /\ opc = "loop"
    /\ op.name = "discover"
    /\ retries' = retries + 1
    /\ HandlerRequest(broker, TRUE)
    /\ opc' = "get"
    /\ UNCHANGED <<opFrame, ix, backoff, ret>>
    /\ UNCHANGED clusterVars

\* discover_offset_manager, lines 110-122: future.get() has its answer.
DiscoverGet ==
    /\ opc = "get"
    /\ op.name = "discover"
    /\ Answered
    /\ IF wire.status = "error"
       THEN IF ShouldRetry(retries)
            THEN /\ log' = log \o <<GetEv, SleepEv(backoff)>>
                 /\ backoff' = NextBackoff(backoff)
                 /\ opc' = "loop"
                 /\ UNCHANGED ret
            ELSE \* `raise`: the exception being handled goes to the caller
                 /\ log' = Append(log, GetEv)
                 /\ opc' = "raised"
                 /\ ret' = Raise("RequestFailure", wire.of)
                 /\ UNCHANGED backoff
       ELSE /\ log' = Append(log, GetEv)
            /\ UNCHANGED backoff
            /\ LET coordinator == Coordinator(brokers, wire.coordinator_id)
               IN  IF coordinator # None
                   THEN /\ opc' = "returned"
                        /\ ret' = coordinator
                   ELSE /\ opc' = "raised"
                        /\ ret' = Raise("CoordinatorUnknown", wire.of)
    /\ UNCHANGED <<opFrame, ix, retries, wire>>
    /\ UNCHANGED clusterVars

\* A constructed Cluster on which one operation is called.
InitOps ==
    /\ cluster = "ready"
    /\ brokers \in ReadyBrokerMaps
    /\ topics = << >>
    /\ conns = Cardinality(DOMAIN brokers) + 1
    /\ npass = 1
    /\ lastDone = 1
    /\ pc = [t \in Threads |-> "idle"]
    /\ pass = [t \in Threads |-> 0]
    /\ before = [t \in Threads |-> NoSnapshot]
    /\ connects = [t \in Threads |-> {}]
    /\ calls = [t \in Threads |-> NoCalls]
    /\ cand = [t \in Threads |-> << >>]
    /\ tried = [t \in Threads |-> << >>]
    /\ meta = [t \in Threads |-> NoMetadata]
    /\ removed = [t \in Threads |-> {}]
    /\ remaining = [t \in Threads |-> {}]
    /\ result = [t \in Threads |-> "none"]
    /\ overlapped = [t \in Threads |-> FALSE]
    /\ op \in Calls
    /\ failing \in BOOLEAN
    /\ IF op.name = "discover"
       THEN broker = BootstrapId
       ELSE DOMAIN brokers = BrokerIds /\ broker \in DOMAIN brokers
    /\ opc = "call"
    /\ ix = 0
    /\ retries = 0
    /\ backoff = 0
    /\ wire = NoReply
    /\ log = << >>
    /\ ret = Pending

NextOps ==
    \/ ServerReply
    \/ ProduceMessages
    \/ ProduceGet
    \/ OffsetsCall
    \/ OffsetsAttempt
    \/ OffsetsExhausted
    \/ OffsetsGet
    \/ DiscoverCall
    \/ DiscoverRequest
    \/ DiscoverGet

\* One call of a Broker operation or of discover_offset_manager.
SpecOps == InitOps /\ [][NextOps]_vars

\* The same call when the caller's thread keeps running and every request
\* that was sent is answered or failed in the end: handler.request() returns
\* and future.get() returns or raises.
SpecOpsFair ==
    /\ InitOps
    /\ [][NextOps]_vars
    /\ WF_vars(ServerReply)
    /\ WF_vars(ProduceMessages \/ ProduceGet)
    /\ WF_vars(OffsetsCall \/ OffsetsAttempt \/ OffsetsExhausted \/ OffsetsGet)
    /\ WF_vars(DiscoverCall \/ DiscoverRequest \/ DiscoverGet)

\* ------------------------------------------------------------------ claims

\* A pass of thread t has returned normally.
PassOk(t) == pc[t] = "done" /\ result[t] = "ok"

\* C1: when a pass of update() returns, whatever the broker map held before
\* it, the key set of the broker map equals the set of broker ids of the fresh
\* metadata: absent ids are dropped, new ids are inserted.
C1_BrokerIdsEqualMetadata ==
    \A t \in Threads : PassOk(t) => DOMAIN brokers = DOMAIN meta[t].brokers

\* A pass has returned that dropped one broker id and inserted another.
C1_Witness ==
    \E t \in Threads :
        /\ PassOk(t)
        /\ DOMAIN before[t].brokers \ DOMAIN brokers # {}
        /\ DOMAIN brokers \ DOMAIN before[t].brokers # {}
        /\ DOMAIN brokers = DOMAIN meta[t].brokers

\* C2: when a pass of update() returns, the key set of the topic map equals the
\* set of topic names of the fresh metadata.
C2_TopicNamesEqualMetadata ==
    \A t \in Threads : PassOk(t) => DOMAIN topics = meta[t].topics

\* A pass has returned that dropped one topic and created another.
C2_Witness ==
    \E t \in Threads :
        /\ PassOk(t)
        /\ DOMAIN before[t].topics \ DOMAIN topics # {}
        /\ DOMAIN topics \ DOMAIN before[t].topics # {}
        /\ DOMAIN topics = meta[t].topics

\* The ids that were in the map when the pass of t began and that its fresh
\* metadata reports at another host or port.
Moved(t) ==
    { id \in DOMAIN before[t].brokers \cap DOMAIN meta[t].brokers :
        ~SameAddress(meta[t].brokers[id], before[t].brokers[id]) }

\* The ids that were in the map when the pass of t began and that its fresh
\* metadata reports at the same host and port.
Kept(t) ==
    { id \in DOMAIN before[t].brokers \cap DOMAIN meta[t].brokers :
        SameAddress(meta[t].brokers[id], before[t].brokers[id]) }

\* The add/update loop of the pass of t has visited id.
Visited(t, id) == pc[t] \in {"brokers", "topics", "done"} /\ id \notin remaining[t]

\* C3: during broker reconciliation, for an id of the map that the fresh
\* metadata reports at a different host or port, the map entry stays the same
\* Broker with its original host and port, and when the loop visits the id the
\* pass raises BrokerAddressChanged.
C3_AddressChangeRaises ==
    \A t \in Threads : \A id \in Moved(t) :
        /\ id \in DOMAIN brokers
        /\ brokers[id] = before[t].brokers[id]
        /\ Visited(t, id) => pc[t] = "done" /\ result[t] = "BrokerAddressChanged"

\* A pass has raised BrokerAddressChanged for an id reported at another address.
C3_Witness ==
    \E t \in Threads :
        /\ pc[t] = "done"
        /\ result[t] = "BrokerAddressChanged"
        /\ \E id \in Moved(t) : Visited(t, id) /\ brokers[id] = before[t].brokers[id]

\* C4: a broker id that is in the map and that the fresh metadata reports with
\* the same host and port keeps the same Broker instance: the pass builds no
\* Broker and performs no connect() for it.
C4_SameInstanceKept ==
    \A t \in Threads : \A id \in Kept(t) :
        /\ id \in DOMAIN brokers
        /\ brokers[id] = before[t].brokers[id]
        /\ id \notin connects[t]

\* A second pass has returned with a broker of the first pass still in place.
C4_Witness ==
    \E t \in Threads :
        /\ PassOk(t)
        /\ \E id \in Kept(t) :
              Visited(t, id) /\ brokers[id].inst < pass[t] /\ connects[t] # {}

\* The call is over.
Over == opc \in {"returned", "raised"}

\* What n attempts that all fail log: request, then for k = 1..n-1 a sleep of
\* k^2 followed by a request.
RECURSIVE FailingTrace(_, _)
FailingTrace(n, to) ==
    IF n = 0 THEN << >>
    ELSE FailingTrace(n - 1, to)
           \o (IF n > 1 THEN <<SleepEv((n - 1) * (n - 1))>> ELSE << >>)
           \o <<RequestEv(to, TRUE)>>

\* C5: commit_consumer_group_offsets(group, partitions, retries=n) against a
\* handler that fails every request makes exactly n attempts, sleeps k^2 before
\* attempt k+1 and not before the first, and returns (None) without raising.
C5_CommitSwallowsEveryFailure ==
    op.name = "commit" /\ failing =>
        /\ opc # "raised"
        /\ opc = "returned" =>
              /\ ret = None
              /\ Len(Events("request")) = op.retries
              /\ RequestsAndSleeps = FailingTrace(op.retries, broker)

\* A commit with retries=3 has returned after three failures and sleeps 1, 4.
C5_Witness ==
    /\ op.name = "commit" /\ failing /\ op.retries = 3
    /\ opc = "returned"
    /\ Len(Events("get")) = 3
    /\ Events("sleep") = <<SleepEv(1), SleepEv(4)>>

\* C6: fetch_consumer_group_offsets(group, partitions, retries=n) against a
\* handler that fails every request makes exactly n attempts with the backoff
\* of commit, raises nothing and returns no value (None).
C6_FetchReturnsNoneOnExhaustion ==
    op.name = "fetch" /\ failing =>
        /\ opc # "raised"
        /\ opc = "returned" =>
              /\ ret = None
              /\ Len(Events("request")) = op.retries
              /\ RequestsAndSleeps = FailingTrace(op.retries, broker)

\* A fetch with retries=3 has returned None after three failed attempts.
C6_Witness ==
    /\ op.name = "fetch" /\ failing /\ op.retries = 3
    /\ opc = "returned"
    /\ ret = None
    /\ Len(Events("get")) = 3

\* C7 as stated: discover_offset_manager against a handler that fails every
\* lookup makes exactly 3 attempts with backoff delays 2, 4, 16 and re-raises
\* the third failure.
C7_Original ==
    op.name = "discover" /\ failing /\ DOMAIN brokers # {} /\ Over =>
        /\ Len(Events("request")) = 3
        /\ Events("sleep") = <<SleepEv(2), SleepEv(4), SleepEv(16)>>
        /\ ret = Raise("RequestFailure", 3)

\* C7 as amended: with a broker known, discover_offset_manager against a
\* handler that fails every lookup makes exactly 3 attempts, sleeps 2 and then
\* 4 between them, and re-raises the third failure without a third sleep
\* (backoff is 16 by then, and is only logged).
C7_TwoSleepsThenReraise ==
    op.name = "discover" /\ failing /\ DOMAIN brokers # {} =>
        /\ opc # "returned"
        /\ opc = "raised" =>
              /\ ret = Raise("RequestFailure", 3)
              /\ RequestsAndSleeps =
                   <<RequestEv(broker, TRUE), SleepEv(2), RequestEv(broker, TRUE),
                     SleepEv(4), RequestEv(broker, TRUE)>>
              /\ Len(Events("get")) = 3
              /\ backoff = 16

\* The third failed lookup has been re-raised.
C7_Witness ==
    /\ op.name = "discover" /\ failing
    /\ opc = "raised"
    /\ ret = Raise("RequestFailure", 3)
    /\ retries = 3

\* _get_metadata of thread t has raised.
MetadataFailed(t) == pc[t] = "done" /\ cand[t] # << >>

\* C8: _get_metadata with an empty broker map tries one bootstrap broker per
\* seed address, in order, and raises only if every seed address fails.
C8_EverySeedTried ==
    \A t \in Threads :
        MetadataFailed(t) /\ cand[t][1].kind = "str" =>
            /\ Len(tried[t]) = Len(cand[t])
            /\ \A k \in DOMAIN tried[t] : tried[t][k].status # "ok"

\* C9: produce_messages with required_acks = 0 submits the request as one that
\* expects no response and returns without waiting for or decoding anything,
\* whatever the server does; with required_acks # 0 it submits the request,
\* returns only once the response is there and raises if it carries an error.
C9_ProduceAwaitsUnlessAcksZero ==
    op.name = "produce" =>
        /\ \A k \in DOMAIN Events("request") :
              Events("request")[k].has_response = (op.required_acks # 0)
        /\ Len(Events("request")) <= 1
        /\ op.required_acks = 0 =>
              /\ opc \in {"call", "returned"}
              /\ Events("get") = << >>
              /\ opc = "returned" => ret = None /\ Len(Events("request")) = 1
        /\ op.required_acks # 0 =>
              /\ Over => wire # NoReply /\ Len(Events("get")) = 1
              /\ opc = "returned" => wire.status = "ok" /\ ret = None
              /\ opc = "raised" => wire.status = "error" /\ ret = Raise("ProtocolError", 1)
              /\ opc = "get" => Len(Events("request")) = 1 /\ Events("get") = << >>

\* A fire-and-forget produce has returned and the server has answered with an
\* error that nobody reads.
C9_Witness ==
    /\ op.name = "produce" /\ op.required_acks = 0
    /\ opc = "returned"
    /\ wire # NoReply
    /\ wire.status = "error"
    /\ Events("get") = << >>

\* The pass of t ended last and no pass is in progress.
EndedLast(t) ==
    /\ pc[t] = "done"
    /\ lastDone = pass[t]
    /\ \A u \in Threads \ {t} : ~InPass(u)

\* The maps disagree with the metadata of the pass of t.
Inconsistent(t) ==
    \/ DOMAIN brokers # DOMAIN meta[t].brokers
    \/ DOMAIN topics # meta[t].topics

\* C10: update() is not safe under interleaving. A pass that no other pass
\* overlapped never fails on a key that is gone and, when it ended last and
\* returned, leaves both maps with exactly the keys of its metadata; two
\* overlapping passes can leave the maps inconsistent with the metadata of the
\* pass that ended last (C10_Witness).
C10_SerializedPassesConsistent ==
    \A t \in Threads :
        ~overlapped[t] =>
            /\ result[t] # "KeyError"
            /\ EndedLast(t) /\ result[t] = "ok" => ~Inconsistent(t)

\* Two passes overlapped, both are over, and the broker map disagrees with the
\* metadata of the one that returned last.
C10_Witness ==
    \E t \in Threads :
        /\ overlapped[t]
        /\ EndedLast(t)
        /\ result[t] = "ok"
        /\ DOMAIN brokers # DOMAIN meta[t].brokers

\* The ids for which the pass of t built a Broker whose connect() raised: new
\* to the map, visited by the add/update loop, and never connected to.
ConnectFailed(t) ==
    { id \in DOMAIN meta[t].brokers \ DOMAIN before[t].brokers :
        /\ id \notin connects[t]
        /\ IF pc[t] = "topics" \/ PassOk(t) THEN TRUE ELSE Visited(t, id) }

\* C11: every Broker of the broker map is connected and has a started request
\* handler; a pass in which the construction of a Broker fails on connect()
\* raises and holds no entry for that id.
C11_MapHoldsConnectedBrokersOnly ==
    /\ \A id \in DOMAIN brokers :
          brokers[id].connected /\ brokers[id].handler = "started"
    /\ \A t \in Threads : \A id \in ConnectFailed(t) :
          /\ id \notin DOMAIN brokers
          /\ pc[t] = "done" /\ result[t] = "ConnectFailure"

\* A pass has connected to one new broker and failed to connect to another.
C11_Witness ==
    \E t \in Threads :
        /\ pc[t] = "done"
        /\ result[t] = "ConnectFailure"
        /\ ConnectFailed(t) # {}
        /\ \E id \in connects[t] \cap DOMAIN brokers : brokers[id].inst = pass[t]

\* C12: after any sequence of serialized update() calls the open connections
\* are exactly those of the Brokers of the broker map, one per id: a dropped
\* Broker and a bootstrap Broker hold no open connection once the pass is over.
\* (conns counts the connections opened; neither file ever closes one.)
C12_NoLeakedConnection ==
    \A t \in Threads :
        pc[t] = "done" => conns = Cardinality(DOMAIN brokers)

\* The last event of the log is the future.get() that took the answer.
EndsWithGet == log # << >> /\ log[Len(log)] = GetEv

\* C13: when a coordinator lookup of discover_offset_manager succeeds, on
\* attempt 1, 2 or 3, the call ends there: it returns the Broker that the
\* broker map holds under the returned coordinator id, or, when the id is no
\* key of the map, raises CoordinatorUnknown; no lookup and no sleep follows
\* the successful answer.
C13_SuccessResolvesCoordinator ==
    op.name = "discover" /\ wire # NoReply /\ wire.status = "ok" =>
        /\ opc \in {"get", "returned", "raised"}
        /\ wire.of = Len(Events("request"))
        /\ wire.of \in 1..3
        /\ Len(Events("sleep")) = wire.of - 1
        /\ Over =>
              /\ EndsWithGet
              /\ IF wire.coordinator_id \in DOMAIN brokers
                 THEN /\ opc = "returned"
                      /\ ret = [kind |-> "Broker",
                                broker |-> brokers[wire.coordinator_id]]
                 ELSE /\ opc = "raised"
                      /\ ret = Raise("CoordinatorUnknown", wire.of)

\* The third lookup succeeded with an id that is no key of the map, and the
\* call raised CoordinatorUnknown.
C13_Witness ==
    /\ op.name = "discover"
    /\ opc = "raised"
    /\ ret = Raise("CoordinatorUnknown", 3)
    /\ DOMAIN brokers # {}
    /\ wire.coordinator_id \notin DOMAIN brokers

\* C14: the retry loops of commit_/fetch_consumer_group_offsets stop at the
\* first attempt that succeeds: when attempt j <= n succeeds, j requests have
\* been sent and j-1 sleeps taken (k^2 before attempt k+1), nothing follows the
\* success, commit returns and fetch returns that attempt's decoded response;
\* with retries = 0 nothing is sent at all.
C14_LoopStopsAtFirstSuccess ==
    op.name \in {"commit", "fetch"} =>
        /\ Len(Events("request")) <= op.retries
        /\ op.retries = 0 => log = << >> /\ (Over => ret = None)
        /\ wire # NoReply /\ wire.status = "ok" =>
              /\ opc \in {"get", "returned"}
              /\ wire.of = Len(Events("request"))
              /\ Len(Events("sleep")) = wire.of - 1
              /\ RequestsAndSleeps = FailingTrace(wire.of, broker)
              /\ opc = "returned" =>
                    /\ EndsWithGet
                    /\ Len(Events("get")) = wire.of
                    /\ ret = IF op.name = "fetch"
                             THEN [kind |-> "response", of |-> wire.of]
                             ELSE None

\* A fetch with retries=3 has returned the response of its second attempt,
\* after one failure and one sleep.
C14_Witness ==
    /\ op.name = "fetch" /\ op.retries = 3
    /\ opc = "returned"
    /\ ret = [kind |-> "response", of |-> 2]
    /\ Events("sleep") = <<SleepEv(1)>>
    /\ Len(Events("request")) = 2

\* The Brokers of a broker map.
Values(b) == { b[id] : id \in DOMAIN b }

\* C15: _get_metadata consults the seed list if and only if the broker map is
\* empty when it is called. With a broker known, the candidates are the known
\* Brokers and nothing else: no bootstrap Broker is built, and a failure of
\* the known brokers is not followed by the seeds. With the map empty (also
\* when an earlier pass emptied it) the candidates are the seed addresses.
C15_SeedsOnlyWhileNoBrokerKnown ==
    \A t \in Threads :
        /\ cand[t] # << >> =>
              IF DOMAIN before[t].brokers = {}
              THEN cand[t] = [k \in 1..2 |->
                                [kind |-> "str", str |-> Split(SeedHosts, ",")[k]]]
              ELSE /\ Len(cand[t]) = Cardinality(DOMAIN before[t].brokers)
                   /\ \A k \in DOMAIN cand[t] :
                         /\ cand[t][k].kind = "Broker"
                         /\ cand[t][k].broker \in Values(before[t].brokers)
        /\ BootstrapId \in connects[t] => DOMAIN before[t].brokers = {}
        /\ InPass(t) /\ pc[t] # "get_metadata" /\ DOMAIN before[t].brokers = {}
              => BootstrapId \in connects[t]

\* The Cluster was constructed, a later pass found the broker map empty and
\* got its metadata from a bootstrap Broker.
C15_Witness ==
    \E t \in Threads :
        /\ cluster = "ready"
        /\ pass[t] >= 2
        /\ pc[t] = "update_brokers"
        /\ DOMAIN before[t].brokers = {}
        /\ BootstrapId \in connects[t]

\* The calls made on the Topic `name` by the pass of t.
TopicCalls(t, name) == { calls[t][name][k] : k \in DOMAIN calls[t][name] }

\* C16: one pass of update() fetches the metadata, then reconciles the
\* brokers, then the topics. Until the metadata is there neither map has
\* changed; until the brokers are reconciled no topic has been touched;
\* whenever a Topic is constructed or updated the broker map has exactly the
\* ids of the fresh metadata, and a constructed Topic holds the Cluster's own
\* broker map (the shared dict, not a copy).
C16_MetadataThenBrokersThenTopics ==
    /\ \A name \in DOMAIN topics : topics[name].brokers = SelfBrokers
    /\ \A t \in Threads :
          /\ pc[t] = "get_metadata" =>
                brokers = before[t].brokers /\ topics = before[t].topics
          /\ pc[t] \in {"get_metadata", "update_brokers", "brokers"} =>
                topics = before[t].topics /\ calls[t] = NoCalls
          /\ pc[t] = "topics" => DOMAIN brokers = DOMAIN meta[t].brokers
          /\ \A name \in TopicNames : \A c \in TopicCalls(t, name) :
                /\ c.ids = DOMAIN meta[t].brokers
                /\ c.call = "Topic" => c.brokers = SelfBrokers

\* A pass that changed the set of broker ids has constructed one Topic and
\* updated another.
C16_Witness ==
    \E t \in Threads :
        /\ PassOk(t)
        /\ DOMAIN before[t].brokers # DOMAIN brokers
        /\ DOMAIN brokers # {}
        /\ \E c \in TopicCalls(t, "t") : c.call = "Topic" /\ c.ids = DOMAIN brokers
        /\ \E c \in TopicCalls(t, "u") : c.call = "update" /\ c.ids = DOMAIN brokers

\* The names that were in the topic map when the pass of t began and that its
\* fresh metadata lists.
KeptTopics(t) == DOMAIN before[t].topics \cap meta[t].topics

\* C17: in every pass of a sequence of update() calls, a topic name that is in
\* the topic map and in the fresh metadata keeps its Topic instance, which
\* gets exactly one update(meta) call; a Topic is constructed only for a name
\* that is not in the map, and the Topic constructed gets no update call in
\* that pass.
C17_TopicKeptAndUpdatedOnce ==
    \A t \in Threads :
        /\ \A name \in KeptTopics(t) :
              /\ name \in DOMAIN topics
              /\ topics[name] = before[t].topics[name]
              /\ PassOk(t) =>
                    /\ Len(calls[t][name]) = 1
                    /\ calls[t][name][1].call = "update"
        /\ \A name \in TopicNames :
              /\ Len(calls[t][name]) <= 1
              /\ \A c \in TopicCalls(t, name) :
                    IF c.call = "Topic"
                    THEN /\ name \notin DOMAIN before[t].topics
                         /\ topics[name].inst = pass[t]
                    ELSE /\ name \in KeptTopics(t)
                         /\ c.on = before[t].topics[name].inst
              /\ PassOk(t) /\ name \in meta[t].topics \ DOMAIN before[t].topics =>
                    /\ Len(calls[t][name]) = 1
                    /\ calls[t][name][1].call = "Topic"

\* The third pass has updated, once, a Topic that the first pass constructed,
\* and has constructed another.
C17_Witness ==
    \E t \in Threads :
        /\ PassOk(t)
        /\ pass[t] = 3
        /\ "t" \in KeptTopics(t)
        /\ topics["t"].inst = 1
        /\ calls[t]["t"] = <<[call |-> "update", on |-> 1, ids |-> DOMAIN brokers]>>
        /\ \E c \in TopicCalls(t, "u") : c.call = "Topic"

\* C18: when update() fails in its metadata-fetch step (a candidate's connect
\* or request failure, a seed that does not parse, no candidate left), the
\* broker map and the topic map are what they were before the call: no entry
\* added, removed or replaced.
C18_MetadataFailureLeavesMaps ==
    \A t \in Threads :
        pc[t] = "get_metadata" \/ MetadataFailed(t) =>
            /\ brokers = before[t].brokers
            /\ topics = before[t].topics
            /\ MetadataFailed(t) =>
                  result[t] \in {"ConnectFailure", "RequestFailure", "ValueError",
                                 "MetadataUnavailable"}

\* A pass that found brokers and topics in the maps has failed on the metadata
\* request to a known broker.
C18_Witness ==
    \E t \in Threads :
        /\ MetadataFailed(t)
        /\ result[t] = "RequestFailure"
        /\ DOMAIN before[t].brokers = BrokerIds
        /\ DOMAIN before[t].topics # {}
        /\ brokers = before[t].brokers
        /\ topics = before[t].topics

\* update() of thread t has raised out of _update_brokers.
BrokersFailed(t) ==
    /\ pc[t] = "done"
    /\ ~MetadataFailed(t)
    /\ result[t] \in {"BrokerAddressChanged", "ConnectFailure"}

\* C19 as stated: when update() fails during broker reconciliation the pass
\* is atomic: the broker map and the topic map are exactly what they were
\* before the call.
C19_Original ==
    \A t \in Threads :
        BrokersFailed(t) =>
            brokers = before[t].brokers /\ topics = before[t].topics

\* C19 as amended: when update() fails during broker reconciliation the topic
\* map is what it was before the call and no Topic was touched, while the
\* broker map is left partly reconciled: every id that the metadata lacks is
\* gone, every id that was in the map and is in the metadata has its entry
\* unchanged, and an id that is new in the map holds a Broker that the pass
\* built from the metadata and connected.
C19_FailureLeavesBrokersPartlyReconciled ==
    \A t \in Threads :
        BrokersFailed(t) =>
            /\ topics = before[t].topics
            /\ calls[t] = NoCalls
            /\ DOMAIN brokers \subseteq DOMAIN meta[t].brokers
            /\ \A id \in DOMAIN before[t].brokers \cap DOMAIN meta[t].brokers :
                  id \in DOMAIN brokers /\ brokers[id] = before[t].brokers[id]
            /\ \A id \in DOMAIN brokers \ DOMAIN before[t].brokers :
                  /\ brokers[id] = FromMetadata(id, meta[t].brokers[id], pass[t])
                  /\ id \in connects[t]

\* A pass has raised BrokerAddressChanged after it had dropped a broker: the
\* broker map is not what it was, the topic map is.
C19_Witness ==
    \E t \in Threads :
        /\ BrokersFailed(t)
        /\ result[t] = "BrokerAddressChanged"
        /\ DOMAIN before[t].brokers \ DOMAIN brokers # {}
        /\ DOMAIN before[t].topics # {}
        /\ meta[t].topics # DOMAIN before[t].topics
        /\ topics = before[t].topics

\* discover_offset_manager is called on a Cluster that knows a broker.
Discovering == op.name = "discover" /\ DOMAIN brokers # {}

\* The bounds and the outcomes of discover_offset_manager, as a state predicate.
DiscoverBounded ==
    Discovering =>
        /\ Len(Events("request")) <= 3
        /\ Len(Events("sleep")) <= 2
        /\ opc # "call" => broker \in DOMAIN brokers
        /\ \A k \in DOMAIN Events("request") : Events("request")[k].to = broker
        /\ opc = "returned" =>
              ret.kind = "Broker" /\ ret.broker \in Values(brokers)
        /\ opc = "raised" =>
              \/ ret = Raise("RequestFailure", 3) /\ wire.status = "error"
              \/ /\ ret = Raise("CoordinatorUnknown", Len(Events("request")))
                 /\ wire.status = "ok"

\* C20: with a non-empty broker map and whatever lookups fail,
\* discover_offset_manager ends after at most 3 lookups and at most 2 sleeps,
\* every lookup going to the broker chosen at the start, in one of three ways:
\* a Broker of the map returned, CoordinatorUnknown raised, or the third
\* failure re-raised; the failure of lookup 1 or 2 never reaches the caller.
C20_DiscoverTerminatesBounded ==
    /\ []DiscoverBounded
    /\ (Discovering ~> (Discovering /\ Over))

\* Two lookups failed, the third succeeded and the call returned a Broker.
C20_Witness ==
    /\ Discovering
    /\ opc = "returned"
    /\ ret.kind = "Broker"
    /\ Len(Events("request")) = 3
    /\ Events("sleep") = <<SleepEv(2), SleepEv(4)>>

====
